---- MODULE Spec2Model ----
(***************************************************************************)
(* Availability and booking engine: generateAvailability (the generator    *)
(* script) and the availability, booking, validation, search and           *)
(* recommendation helpers (the helper library).                            *)
(*                                                                         *)
(* Representation.                                                         *)
(*   - A JavaScript string is a sequence of one-character strings, so that *)
(*     split, parseInt and localeCompare are computed character by         *)
(*     character.                                                          *)
(*   - A calendar date is its day number (day 0 = 1970-01-01, a Thursday); *)
(*     the YYYY-MM-DD text of a day number is a bijection and is not       *)
(*     spelled out.  What is modelled of a Date is the difference between  *)
(*     its local fields and its UTC fields.                                *)
(*   - Math.random() returns u / RandomResolution for an integer u.        *)
(*   - The innermost objects of the availability mapping (time -> count)   *)
(*     live on a heap and are reached through addresses, because they are  *)
(*     the objects the booking code writes to; an object is the sequence   *)
(*     of its entries in insertion order.                                  *)
(*   - Ratings have one decimal and are kept in tenths, and so are the     *)
(*     recommendation scores.                                              *)
(*                                                                         *)
(* Specifications.                                                         *)
(*   Spec            generation, bookings, point checks, slot lists and    *)
(*                   statistics under a call / return discipline           *)
(*   SpecGeneration  generation on every host and with every first draw    *)
(*   SpecQueries     alternative slots and the multi-restaurant check      *)
(*   SpecValidation  validateBooking on every host                         *)
(*   SpecDirectory   searchRestaurants and getRecommendations              *)
(***************************************************************************)
EXTENDS Integers, Sequences, FiniteSets, TLC

VARIABLES
    world,          \* the clock and the time zone of the host
    pc,             \* "start" before generation, "ready" after
    heap,           \* address -> day object (sequence of [time, tables])
    availability,   \* the caller's mapping: restaurant -> date -> address
    generated,      \* the mapping's value as it was generated
    call,           \* the last call: operation and arguments
    ret,            \* what the last call returned
    before,         \* the value of the caller's mapping when the call began
    bookings        \* number of bookings the caller has applied

vars == <<world, pc, heap, availability, generated, call, ret, before, bookings>>

----------------------------------------------------------------------------
(* Bounds *)

MaxRestaurants == 2
MaxDays == 2
RandomResolution == 20
MaxTablesBooked == 3
MaxMinTables == 3
MaxBookings == 2
MaxAlternatives == 2
MaxIdList == 2
MaxPartyMargin == 2
MaxDirectory == 3
MaxLimit == 2

----------------------------------------------------------------------------
(* Strings *)

Digits == {"0", "1", "2", "3", "4", "5", "6", "7", "8", "9"}

DigitValue(c) ==
    CASE c = "0" -> 0 [] c = "1" -> 1 [] c = "2" -> 2 [] c = "3" -> 3
      [] c = "4" -> 4 [] c = "5" -> 5 [] c = "6" -> 6 [] c = "7" -> 7
      [] c = "8" -> 8 [] c = "9" -> 9

\* Collation rank of a character: punctuation sorts before the digits.
CollationRank(c) == IF c = ":" THEN 0 ELSE 1 + DigitValue(c)

Max(a, b) == IF a >= b THEN a ELSE b

Sign(n) == IF n < 0 THEN -1 ELSE IF n > 0 THEN 1 ELSE 0

RECURSIVE split(_, _)
split(s, sep) ==
    IF \A i \in 1..Len(s) : s[i] # sep
    THEN <<s>>
    ELSE LET i == CHOOSE k \in 1..Len(s) :
                      s[k] = sep /\ \A j \in 1..(k - 1) : s[j] # sep
         IN  <<SubSeq(s, 1, i - 1)>> \o split(SubSeq(s, i + 1, Len(s)), sep)

\* parseInt: the value of the longest prefix of decimal digits.
NaN == [nan |-> TRUE]

RECURSIVE parseDigits(_, _)
parseDigits(s, acc) ==
    IF s = <<>> \/ s[1] \notin Digits
    THEN acc
    ELSE parseDigits(Tail(s), 10 * acc + DigitValue(s[1]))

parseInt(s) ==
    IF s = <<>> \/ s[1] \notin Digits THEN NaN ELSE parseDigits(s, 0)

\* a.localeCompare(b): negative, zero or positive.
RECURSIVE localeCompare(_, _)
localeCompare(a, b) ==
    IF a = <<>> /\ b = <<>> THEN 0
    ELSE IF a = <<>> THEN -1
    ELSE IF b = <<>> THEN 1
    ELSE IF CollationRank(a[1]) # CollationRank(b[1])
         THEN Sign(CollationRank(a[1]) - CollationRank(b[1]))
         ELSE localeCompare(Tail(a), Tail(b))

----------------------------------------------------------------------------
(* Dates *)

\* The offset from UTC, in hours, in force on a local day.
utcOffsetOn(w, localDay) ==
    w.utcOffset + (IF localDay >= w.dstDay THEN w.dstShift ELSE 0)

\* new Date(): a Date is kept by its local fields.
newDate(w) == [day |-> w.localDay, hour |-> w.localHour]

getDate(date) == date.day

setDate(date, day) == [date EXCEPT !.day = day]

\* date.getDay(): 0 = Sunday ... 6 = Saturday, of the local date.
getDay(date) == (date.day + 4) % 7

\* date.toISOString().split('T')[0]: the date of the instant in UTC.
toISODate(w, date) ==
    (date.day * 24 + date.hour - utcOffsetOn(w, date.day)) \div 24

----------------------------------------------------------------------------
(* Random draws *)

\* The value drawn at a call site of Math.random(), as a numerator over
\* RandomResolution.
draw(stream, site) == (stream.seed + stream.stride * site) % RandomResolution

\* Math.floor(Math.random() * n)
floorRandom(u, n) == (u * n) \div RandomResolution

\* Math.random() < tenths / 10
randomBelow(u, tenths) == u * 10 < tenths * RandomResolution

----------------------------------------------------------------------------
(* JavaScript objects and values *)

Null == [tag |-> "null"]
Undefined == [tag |-> "undefined"]
Number(n) == [tag |-> "number", value |-> n]

Range(seq) == {seq[i] : i \in 1..Len(seq)}

\* obj[key] on a day object: the stored count or undefined.
hasKey(obj, key) == \E i \in 1..Len(obj) : obj[i].time = key

getKey(obj, key) ==
    IF hasKey(obj, key)
    THEN Number(obj[CHOOSE i \in 1..Len(obj) : obj[i].time = key].tables)
    ELSE Undefined

\* A slip of setKey: the write reaches every key of the object.
setKeyEvery(obj, key, tables) ==
    IF hasKey(obj, key)
    THEN [i \in 1..Len(obj) |-> [obj[i] EXCEPT !.tables = tables]]
    ELSE Append(obj, [time |-> key, tables |-> tables])

\* obj[key] = tables: an existing key keeps its place, a new key goes last.
setKey(obj, key, tables) ==
    IF hasKey(obj, key)
    THEN [i \in 1..Len(obj) |->
            IF obj[i].time = key THEN [obj[i] EXCEPT !.tables = tables] ELSE obj[i]]
    ELSE Append(obj, [time |-> key, tables |-> tables])

\* m[key] = value on an object kept as a function.
setField(m, key, value) ==
    [k \in DOMAIN m \cup {key} |-> IF k = key THEN value ELSE m[k]]

EmptyObject == <<>>

----------------------------------------------------------------------------
(* generateAvailability *)

timeSlots ==
    << <<"1","1",":","3","0">>, <<"1","2",":","0","0">>, <<"1","2",":","3","0">>,
       <<"1","3",":","0","0">>, <<"1","3",":","3","0">>, <<"1","4",":","0","0">>,
       <<"1","7",":","0","0">>, <<"1","7",":","3","0">>, <<"1","8",":","0","0">>,
       <<"1","8",":","3","0">>, <<"1","9",":","0","0">>, <<"1","9",":","3","0">>,
       <<"2","0",":","0","0">>, <<"2","0",":","3","0">>, <<"2","1",":","0","0">>,
       <<"2","1",":","3","0">>, <<"2","2",":","0","0">> >>

slotHour(timeSlot) == parseInt(split(timeSlot, ":")[1])

isLunch(hour) == hour < 15

isDinner(hour) == hour >= 17

\* Skip lunch slots on weekends (30% chance).
skipsSlot(dayOfWeek, hour, u) ==
    isLunch(hour) /\ (dayOfWeek = 0 \/ dayOfWeek = 6) /\ randomBelow(u, 3)

\* Base availability by popularity of the time slot.
baseTables(hour, u) ==
    IF hour = 19 \/ hour = 20 THEN floorRandom(u, 3)
    ELSE IF hour = 18 \/ hour = 21 THEN floorRandom(u, 5)
    ELSE IF isLunch(hour) THEN floorRandom(u, 6) + 2
    ELSE floorRandom(u, 8) + 1

\* A slip of weekendDinnerAdjustment: no floor at 0.
weekendDinnerAdjustmentUnfloored(dayOfWeek, hour, availableTables) ==
    IF (dayOfWeek = 5 \/ dayOfWeek = 6) /\ isDinner(hour)
    THEN availableTables - 2
    ELSE availableTables

weekendDinnerAdjustment(dayOfWeek, hour, availableTables) ==
    IF (dayOfWeek = 5 \/ dayOfWeek = 6) /\ isDinner(hour)
    THEN Max(0, availableTables - 2)
    ELSE availableTables

weekdayLunchAdjustment(dayOfWeek, hour, availableTables) ==
    IF dayOfWeek >= 1 /\ dayOfWeek <= 5 /\ isLunch(hour)
    THEN Max(0, availableTables - 1)
    ELSE availableTables

\* Random fully booked slots (20% chance for peak times).
peakSellout(hour, u, availableTables) ==
    IF (hour = 19 \/ hour = 20) /\ randomBelow(u, 2) THEN 0 ELSE availableTables

\* The body of timeSlots.forEach for one slot: the day object after it.
\* The three call sites of Math.random() draw uSkip, uBase and uSellout.
generateSlot(slots, dayOfWeek, timeSlot, uSkip, uBase, uSellout) ==
    LET hour == slotHour(timeSlot)
        availableTables ==
            peakSellout(hour, uSellout,
                weekdayLunchAdjustment(dayOfWeek, hour,
                    weekendDinnerAdjustment(dayOfWeek, hour,
                        baseTables(hour, uBase))))
    IN  IF skipsSlot(dayOfWeek, hour, uSkip)
        THEN slots
        ELSE setKey(slots, timeSlot, availableTables)

\* timeSlots.forEach over the first n slots; `site` numbers the call sites
\* of Math.random() of this day.
RECURSIVE generateSlots(_, _, _, _)
generateSlots(dayOfWeek, stream, site, n) ==
    IF n = 0
    THEN EmptyObject
    ELSE generateSlot(generateSlots(dayOfWeek, stream, site, n - 1),
                      dayOfWeek, timeSlots[n],
                      draw(stream, site + 3 * (n - 1)),
                      draw(stream, site + 3 * (n - 1) + 1),
                      draw(stream, site + 3 * (n - 1) + 2))

\* The Date of a day of the horizon.
horizonDate(w, dayOffset) ==
    LET today == newDate(w)
    IN  setDate(today, getDate(today) + dayOffset)

\* The for loop over dayOffset < n for one restaurant.
RECURSIVE generateDays(_, _, _, _, _)
generateDays(w, stream, restaurantIndex, daysAhead, n) ==
    IF n = 0
    THEN EmptyObject
    ELSE LET dayOffset == n - 1
             date == horizonDate(w, dayOffset)
             dateString == toISODate(w, date)
             dayOfWeek == getDay(date)
             site == ((restaurantIndex - 1) * daysAhead + dayOffset)
                        * 3 * Len(timeSlots)
         IN  setField(generateDays(w, stream, restaurantIndex, daysAhead, n - 1),
                      dateString,
                      generateSlots(dayOfWeek, stream, site, Len(timeSlots)))

\* restaurantIds.forEach over the first n ids.
RECURSIVE generateRestaurants(_, _, _, _, _)
generateRestaurants(w, stream, restaurantIds, daysAhead, n) ==
    IF n = 0
    THEN EmptyObject
    ELSE setField(generateRestaurants(w, stream, restaurantIds, daysAhead, n - 1),
                  restaurantIds[n],
                  generateDays(w, stream, n, daysAhead, daysAhead))

\* The parsed JSON that generateAvailability returns: restaurant -> date ->
\* day object.  Counts are integers, so JSON keeps them exactly.
generateAvailability(w, stream, restaurantIds, daysAhead) ==
    generateRestaurants(w, stream, restaurantIds, daysAhead, Len(restaurantIds))

----------------------------------------------------------------------------
(* The heap of day objects *)

\* Addresses of the day objects of a mapping.
addresses(m) == UNION {{m[r][d] : d \in DOMAIN m[r]} : r \in DOMAIN m}

\* The value of a mapping: restaurant -> date -> day object.
valueOf(m, h) == [r \in DOMAIN m |-> [d \in DOMAIN m[r] |-> h[m[r][d]]]]

\* JSON.stringify of a mapping: its text determines exactly its value.
JSONstringify(m, h) == valueOf(m, h)

\* JSON.parse: every object of the text is a new object; `epoch` numbers the
\* parse, so that its objects are distinct from those of any earlier one.
JSONparse(json, epoch) ==
    LET m == [r \in DOMAIN json |-> [d \in DOMAIN json[r] |-> <<epoch, r, d>>]]
    IN  [refs |-> m,
         objects |-> [a \in addresses(m) |-> json[a[2]][a[3]]]]

\* Objects no reference reaches are collected.
collect(h, live) == [a \in (DOMAIN h) \cap live |-> h[a]]

----------------------------------------------------------------------------
(* The host: clock and time zone *)

AllIds == <<"r1", "r2", "r3", "r4", "r5">>

IdLists == {SubSeq(AllIds, 1, n) : n \in 1..MaxRestaurants}

Horizons == 1..MaxDays

\* A host: its clock reads localHour on localDay, its zone is utcOffset
\* hours ahead of UTC, and from dstDay on dstShift hours more.
Hosts(days, clocks, shifts) ==
    {[localDay |-> d, localHour |-> c.localHour, utcOffset |-> c.utcOffset,
      dstDay |-> d + 1, dstShift |-> s] :
        d \in days, c \in clocks, s \in shifts}

\* Hosts of the booking runs: Saturday or Sunday noon, UTC.
BookingHosts == Hosts({2, 3}, {[localHour |-> 12, utcOffset |-> 0]}, {0})

\* Hosts of the generation runs: every weekday; noon UTC, an evening west of
\* Greenwich and a small hour east of it; with and without daylight saving
\* time beginning after the first day.
GenerationHosts ==
    Hosts(1..7,
          {[localHour |-> 12, utcOffset |-> 0],
           [localHour |-> 19, utcOffset |-> -5],
           [localHour |-> 1, utcOffset |-> 10]},
          {0, 1})

BookingStreams == {[seed |-> 0, stride |-> 3], [seed |-> 3, stride |-> 7]}

GenerationStreams ==
    {[seed |-> s, stride |-> 7] : s \in 0..(RandomResolution - 1)}

NoCall == [op |-> "none"]

InitWith(hosts) ==
    /\ world \in hosts
    /\ pc = "start"
    /\ heap = <<>>
    /\ availability = <<>>
    /\ generated = <<>>
    /\ call = NoCall
    /\ ret = Null
    /\ before = <<>>
    /\ bookings = 0

Init == InitWith(BookingHosts)

InitGeneration == InitWith(GenerationHosts)

\* const availability = JSON.parse(generateAvailability(ids, daysAhead))
Generate(idLists, horizons, streams) ==
    /\ pc = "start"
    /\ \E restaurantIds \in idLists, daysAhead \in horizons, stream \in streams :
          LET json == generateAvailability(world, stream, restaurantIds, daysAhead)
              parsed == JSONparse(json, 0)
          IN  /\ heap' = parsed.objects
              /\ availability' = parsed.refs
              /\ generated' = json
              /\ call' = [op |-> "generateAvailability",
                          restaurantIds |-> restaurantIds,
                          daysAhead |-> daysAhead]
              /\ ret' = Null
              /\ before' = <<>>
    /\ pc' = "ready"
    /\ UNCHANGED <<world, bookings>>

\* The booking runs start from the mapping of the longest id list and horizon.
GenerateAvailability ==
    Generate({SubSeq(AllIds, 1, MaxRestaurants)}, {MaxDays}, BookingStreams)

GenerateAvailabilityAnyDraw == Generate(IdLists, Horizons, GenerationStreams)

----------------------------------------------------------------------------
(* Availability queries *)

\* A slip of nullish: a || b, which also replaces 0.
nullishFalsy(a, b) ==
    IF a = Undefined \/ a = Null \/ a = Number(0) THEN b ELSE a

\* a ?? b
nullish(a, b) == IF a = Undefined \/ a = Null THEN b ELSE a

\* availability[restaurantId]?.[date]: the address of the day object, if any.
hasDate(m, restaurantId, date) ==
    restaurantId \in DOMAIN m /\ date \in DOMAIN m[restaurantId]

\* availability[restaurantId]?.[date]?.[time]
slotAt(m, h, restaurantId, date, time) ==
    IF hasDate(m, restaurantId, date)
    THEN getKey(h[m[restaurantId][date]], time)
    ELSE Undefined

\* The helper library.
checkAvailability(m, h, restaurantId, date, time) ==
    nullish(slotAt(m, h, restaurantId, date, time), Null)

\* The generator script.
checkAvailabilityJs(m, h, restaurantId, date, time) ==
    IF restaurantId \notin DOMAIN m THEN Null
    ELSE IF date \notin DOMAIN m[restaurantId] THEN Null
    ELSE nullish(getKey(h[m[restaurantId][date]], time), Null)

\* A slip of filterMinTables: tables > minTables.
RECURSIVE filterMinTablesStrict(_, _)
filterMinTablesStrict(slots, minTables) ==
    IF slots = <<>> THEN <<>>
    ELSE (IF Head(slots).tables > minTables THEN <<Head(slots)>> ELSE <<>>)
            \o filterMinTablesStrict(Tail(slots), minTables)

\* array.filter(keep) with keep(slot) == slot.tables >= minTables
RECURSIVE filterMinTables(_, _)
filterMinTables(slots, minTables) ==
    IF slots = <<>> THEN <<>>
    ELSE (IF Head(slots).tables >= minTables THEN <<Head(slots)>> ELSE <<>>)
            \o filterMinTables(Tail(slots), minTables)

\* The comparator (a, b) => a.time.localeCompare(b.time).
compareByTime(a, b) == localeCompare(a.time, b.time)

\* Insert x after every element that does not compare greater than it.
RECURSIVE insertByTime(_, _)
insertByTime(sorted, x) ==
    IF sorted = <<>> THEN <<x>>
    ELSE IF compareByTime(Head(sorted), x) > 0 THEN <<x>> \o sorted
    ELSE <<Head(sorted)>> \o insertByTime(Tail(sorted), x)

\* array.sort(compareByTime): the sort is stable.
RECURSIVE sortByTime(_)
sortByTime(slots) ==
    IF slots = <<>> THEN <<>>
    ELSE insertByTime(sortByTime(SubSeq(slots, 1, Len(slots) - 1)),
                      slots[Len(slots)])

\* The { time, available_tables } records of the entries.
toTimeSlots(slots) ==
    [i \in 1..Len(slots) |->
        [time |-> slots[i].time, available_tables |-> slots[i].tables]]

\* The helper library.
getAvailableSlots(m, h, restaurantId, date, minTables) ==
    IF ~hasDate(m, restaurantId, date)
    THEN <<>>
    ELSE toTimeSlots(sortByTime(
            filterMinTables(h[m[restaurantId][date]], minTables)))

\* The generator script.
getAvailableSlotsJs(m, h, restaurantId, date, minTables) ==
    IF restaurantId \notin DOMAIN m \/ date \notin DOMAIN m[restaurantId]
    THEN <<>>
    ELSE toTimeSlots(sortByTime(
            filterMinTables(h[m[restaurantId][date]], minTables)))

\* A parameter with a default value.
orDefault(arg, default) == IF arg = Undefined THEN default ELSE arg

----------------------------------------------------------------------------
(* Alternative slots *)

\* Number(text): the empty text is 0, decimal digits are their value, any
\* other text is NaN.
toNumber(s) ==
    IF \A i \in 1..Len(s) : s[i] \in Digits
    THEN Number(parseDigits(s, 0))
    ELSE NaN

Abs(n) == IF n < 0 THEN -n ELSE n

\* const [hours, minutes] = time.split(':').map(Number);
\* return hours * 60 + minutes;  a missing part is undefined, and NaN spreads.
timeToMinutes(time) ==
    LET parts == split(time, ":")
        hours == toNumber(parts[1])
        minutes == IF Len(parts) > 1 THEN toNumber(parts[2]) ELSE NaN
    IN  IF hours = NaN \/ minutes = NaN
        THEN NaN
        ELSE Number(hours.value * 60 + minutes.value)

\* Math.abs(timeToMinutes(slot.time) - preferredMinutes)
proximity(slot, preferredMinutes) ==
    IF timeToMinutes(slot.time) = NaN \/ preferredMinutes = NaN
    THEN NaN
    ELSE Number(Abs(timeToMinutes(slot.time).value - preferredMinutes.value))

\* The comparator (a, b) => diffA - diffB.
compareByProximity(a, b, preferredMinutes) ==
    IF proximity(a, preferredMinutes) = NaN \/ proximity(b, preferredMinutes) = NaN
    THEN NaN
    ELSE Number(proximity(a, preferredMinutes).value
                    - proximity(b, preferredMinutes).value)

\* Insert x after every element that does not compare greater than it; a
\* comparator result of NaN counts as 0.
RECURSIVE insertByProximity(_, _, _)
insertByProximity(sorted, x, preferredMinutes) ==
    IF sorted = <<>> THEN <<x>>
    ELSE LET c == compareByProximity(Head(sorted), x, preferredMinutes)
         IN  IF c # NaN /\ c.value > 0
             THEN <<x>> \o sorted
             ELSE <<Head(sorted)>>
                     \o insertByProximity(Tail(sorted), x, preferredMinutes)

\* alternatives.sort(compareByProximity): the sort is stable.
RECURSIVE sortByProximity(_, _)
sortByProximity(slots, preferredMinutes) ==
    IF slots = <<>> THEN <<>>
    ELSE insertByProximity(
            sortByProximity(SubSeq(slots, 1, Len(slots) - 1), preferredMinutes),
            slots[Len(slots)], preferredMinutes)

\* array.slice(0, end): a negative end counts from the end of the array.
slice(array, end) ==
    LET last == IF end < 0 THEN Max(Len(array) + end, 0)
                ELSE IF end > Len(array) THEN Len(array) ELSE end
    IN  SubSeq(array, 1, last)

\* allSlots.filter(slot => slot.time !== preferredTime)
excludeTime(slots, preferredTime) ==
    SelectSeq(slots, LAMBDA slot : slot.time # preferredTime)

findAlternativeSlots(m, h, restaurantId, date, preferredTime, minArg, maxArg) ==
    LET minTables == orDefault(minArg, Number(1)).value
        maxAlternatives == orDefault(maxArg, Number(3)).value
        allSlots == getAvailableSlots(m, h, restaurantId, date, minTables)
        alternatives == excludeTime(allSlots, preferredTime)
        preferredMinutes == timeToMinutes(preferredTime)
    IN  slice(sortByProximity(alternatives, preferredMinutes), maxAlternatives)

----------------------------------------------------------------------------
(* Several restaurants at once *)

\* a || b
logicalOr(a, b) ==
    IF a = Undefined \/ a = Null \/ a = NaN \/ a = Number(0) THEN b ELSE a

\* A slip of meetsMinimum: tables > minTables.
meetsMinimumStrict(tables, minTables) == tables > minTables

\* tables >= minTables
meetsMinimum(tables, minTables) == tables >= minTables

\* restaurantIds.map(restaurantId => ({ restaurantId, available, tables }))
checkMultipleRestaurants(m, h, restaurantIds, date, time, minTablesArg) ==
    LET minTables == orDefault(minTablesArg, Number(1)).value
    IN  [i \in 1..Len(restaurantIds) |->
            LET tables == logicalOr(
                    checkAvailability(m, h, restaurantIds[i], date, time),
                    Number(0)).value
            IN  [restaurantId |-> restaurantIds[i],
                 available |-> meetsMinimum(tables, minTables),
                 tables |-> tables]]

----------------------------------------------------------------------------
(* Validating a booking *)

MinPartySize == 1
MaxPartySize == 20

\* new Date(dateString + 'T00:00:00'): midnight of the date, local time.
parseDate(dateString) == [day |-> dateString, hour |-> 0]

\* date.setHours(0, 0, 0, 0)
setHours(date, hour) == [date EXCEPT !.hour = hour]

\* The instant of a Date, in hours since the epoch: what < compares.
getTime(w, date) == date.day * 24 + date.hour - utcOffsetOn(w, date.day)

isDateInPast(w, dateString) ==
    LET date == parseDate(dateString)
        today == setHours(newDate(w), 0)
    IN  getTime(w, date) < getTime(w, today)

\* /^\d{2}:\d{2}$/.test(time): $ matches at the end of the text only.
matchesTimeFormat(time) ==
    /\ Len(time) = 5
    /\ time[1] \in Digits /\ time[2] \in Digits
    /\ time[3] = ":"
    /\ time[4] \in Digits /\ time[5] \in Digits

PastDateError == "Cannot book for a past date"
PartyTooSmallError == "Party size must be at least 1"
PartyTooLargeError ==
    "Party size cannot exceed 20. Please contact restaurant directly for large groups"
TimeFormatError == "Invalid time format. Use HH:MM"

\* errors.push(message) when the rule is violated.
pushIf(errors, violated, message) ==
    IF violated THEN Append(errors, message) ELSE errors

\* A slip of validateBooking: the rules after the first violated one are
\* not evaluated.
validateBookingFirstError(w, date, time, partySize) ==
    LET errors ==
            IF isDateInPast(w, date) THEN <<PastDateError>>
            ELSE IF partySize < MinPartySize THEN <<PartyTooSmallError>>
            ELSE IF partySize > MaxPartySize THEN <<PartyTooLargeError>>
            ELSE IF ~matchesTimeFormat(time) THEN <<TimeFormatError>>
            ELSE <<>>
    IN  [valid |-> Len(errors) = 0, errors |-> errors]

validateBooking(w, date, time, partySize) ==
    LET errors ==
            pushIf(pushIf(pushIf(pushIf(<<>>,
                isDateInPast(w, date), PastDateError),
                partySize < MinPartySize, PartyTooSmallError),
                partySize > MaxPartySize, PartyTooLargeError),
                ~matchesTimeFormat(time), TimeFormatError)
    IN  [valid |-> Len(errors) = 0, errors |-> errors]

----------------------------------------------------------------------------
(* Restaurant search and recommendations *)

\* A restaurant is a record of its cuisine, location and dietary options
\* (texts), its price range symbol, its rating in tenths (ratings have one
\* decimal) and its two boolean features.  Filters and preferences are
\* records that hold the fields that were given; a missing field is
\* undefined.

UpperCase ==
    <<"A","B","C","D","E","F","G","H","I","J","K","L","M",
      "N","O","P","Q","R","S","T","U","V","W","X","Y","Z">>

LowerCase ==
    <<"a","b","c","d","e","f","g","h","i","j","k","l","m",
      "n","o","p","q","r","s","t","u","v","w","x","y","z">>

\* text.toLowerCase()
toLowerCase(text) ==
    [i \in 1..Len(text) |->
        IF \E k \in 1..Len(UpperCase) : UpperCase[k] = text[i]
        THEN LowerCase[CHOOSE k \in 1..Len(UpperCase) : UpperCase[k] = text[i]]
        ELSE text[i]]

\* A field that is given and whose text is not empty: a truthy text.
givenText(obj, field) == field \in DOMAIN obj /\ obj[field] # <<>>

\* A field that is given and whose number is not 0: a truthy number.
givenNumber(obj, field) == field \in DOMAIN obj /\ obj[field] # 0

\* A slip of givenBoolean: the value is tested, so that false is not given.
givenBooleanTruthy(obj, field) == field \in DOMAIN obj /\ obj[field]

\* obj[field] !== undefined
givenBoolean(obj, field) == field \in DOMAIN obj

\* restaurant.dietary_options.some(ro => ro.toLowerCase() === option.toLowerCase())
hasOption(restaurant, option) ==
    \E i \in 1..Len(restaurant.dietary_options) :
        toLowerCase(restaurant.dietary_options[i]) = toLowerCase(option)

\* The predicate of restaurants.filter in searchRestaurants.
matchesFilters(restaurant, filters) ==
    /\ ~(/\ givenText(filters, "cuisine")
          /\ toLowerCase(restaurant.cuisine) # toLowerCase(filters.cuisine))
    /\ ~(/\ givenText(filters, "location")
          /\ toLowerCase(restaurant.location) # toLowerCase(filters.location))
    /\ ~(/\ givenText(filters, "price_range")
          /\ restaurant.price_range # filters.price_range)
    /\ ~(/\ "dietary_options" \in DOMAIN filters
          /\ Len(filters.dietary_options) > 0
          /\ ~(\A i \in 1..Len(filters.dietary_options) :
                  hasOption(restaurant, filters.dietary_options[i])))
    /\ ~(/\ givenNumber(filters, "min_rating")
          /\ restaurant.rating < filters.min_rating)
    /\ ~(/\ givenBoolean(filters, "outdoor_seating")
          /\ restaurant.outdoor_seating # filters.outdoor_seating)
    /\ ~(/\ givenBoolean(filters, "private_dining")
          /\ restaurant.private_dining # filters.private_dining)

searchRestaurants(restaurants, filters) ==
    SelectSeq(restaurants, LAMBDA restaurant : matchesFilters(restaurant, filters))

\* preferences.dietary_options.filter(option => ...).length
matchCount(restaurant, preferences) ==
    Cardinality({i \in 1..Len(preferences.dietary_options) :
                    hasOption(restaurant, preferences.dietary_options[i])})

\* The score before the minimum rating is looked at, in tenths.
additiveScore(restaurant, preferences) ==
    (IF givenText(preferences, "cuisine")
          /\ toLowerCase(restaurant.cuisine) = toLowerCase(preferences.cuisine)
     THEN 100 ELSE 0)
    + (IF "dietary_options" \in DOMAIN preferences
       THEN matchCount(restaurant, preferences) * 50 ELSE 0)
    + (IF givenText(preferences, "price_range")
          /\ restaurant.price_range = preferences.price_range
       THEN 50 ELSE 0)
    + restaurant.rating * 2

\* A slip of scoreOf: the minimum rating is not looked at.
scoreOfAnyRating(restaurant, preferences) ==
    additiveScore(restaurant, preferences)

\* The score of the scored item, in tenths: -1 becomes -10.
scoreOf(restaurant, preferences) ==
    IF givenNumber(preferences, "min_rating")
          /\ restaurant.rating < preferences.min_rating
    THEN -10
    ELSE additiveScore(restaurant, preferences)

\* Insert x after every element whose score is not below its own.
RECURSIVE insertByScore(_, _)
insertByScore(sorted, x) ==
    IF sorted = <<>> THEN <<x>>
    ELSE IF x.score - Head(sorted).score > 0 THEN <<x>> \o sorted
    ELSE <<Head(sorted)>> \o insertByScore(Tail(sorted), x)

\* scored.sort((a, b) => b.score - a.score): the sort is stable.
RECURSIVE sortByScore(_)
sortByScore(scored) ==
    IF scored = <<>> THEN <<>>
    ELSE insertByScore(sortByScore(SubSeq(scored, 1, Len(scored) - 1)),
                       scored[Len(scored)])

getRecommendations(restaurants, preferences, limitArg) ==
    LET limit == orDefault(limitArg, Number(5)).value
        scored == [i \in 1..Len(restaurants) |->
                     [restaurant |-> restaurants[i],
                      score |-> scoreOf(restaurants[i], preferences)]]
        kept == SelectSeq(scored, LAMBDA item : item.score > 0)
        top == slice(sortByScore(kept), limit)
    IN  [i \in 1..Len(top) |-> top[i].restaurant]

----------------------------------------------------------------------------
(* Applying a booking *)

\* A slip of deepClone: no copy, the same objects under another name.
deepCloneShared(m, h, epoch) == [refs |-> m, heap |-> h]

\* JSON.parse(JSON.stringify(availability)): the clone and the heap with it.
deepClone(m, h, epoch) ==
    LET parsed == JSONparse(JSONstringify(m, h), epoch)
    IN  [refs |-> parsed.refs, heap |-> parsed.objects @@ h]

\* A slip of slotDefined: only the restaurant and the date are looked up.
slotDefinedLoose(m, h, restaurantId, date, time) ==
    hasDate(m, restaurantId, date)

\* updated[restaurantId]?.[date]?.[time] !== undefined
slotDefined(m, h, restaurantId, date, time) ==
    slotAt(m, h, restaurantId, date, time) # Undefined

\* A slip of tablesLeft: no floor at 0.
tablesLeftUnfloored(count, tablesBooked) ==
    IF count = Undefined THEN NaN ELSE count.value - tablesBooked

\* A slip of tablesLeft: the amount is added.
tablesLeftAdded(count, tablesBooked) ==
    IF count = Undefined THEN NaN ELSE Max(0, count.value + tablesBooked)

\* A slip of tablesLeft: a booking of more tables than are left is refused
\* and the count stays.
tablesLeftRefused(count, tablesBooked) ==
    IF count = Undefined THEN NaN
    ELSE IF count.value < tablesBooked THEN count.value
    ELSE count.value - tablesBooked

\* Math.max(0, count - tablesBooked); undefined - n is NaN, and so is
\* Math.max(0, NaN).
tablesLeft(count, tablesBooked) ==
    IF count = Undefined THEN NaN ELSE Max(0, count.value - tablesBooked)

\* The returned mapping and the heap after the call.
updateAvailabilityAfterBooking(m, h, epoch, restaurantId, date, time, tablesArg) ==
    LET tablesBooked == orDefault(tablesArg, Number(1)).value
        updated == deepClone(m, h, epoch)
    IN  IF slotDefined(updated.refs, updated.heap, restaurantId, date, time)
        THEN LET a == updated.refs[restaurantId][date]
                 count == getKey(updated.heap[a], time)
             IN  [refs |-> updated.refs,
                  heap |-> [updated.heap EXCEPT
                              ![a] = setKey(@, time, tablesLeft(count, tablesBooked))]]
        ELSE updated

----------------------------------------------------------------------------
(* Statistics of a restaurant *)

\* The counters of getAvailabilityStats.
NoSlots == [totalSlots |-> 0, availableSlots |-> 0, fullyBookedSlots |-> 0]

\* The body of the inner forEach for one count.
countSlot(counters, tables) ==
    IF tables > 0
    THEN [counters EXCEPT !.totalSlots = @ + 1, !.availableSlots = @ + 1]
    ELSE [counters EXCEPT !.totalSlots = @ + 1, !.fullyBookedSlots = @ + 1]

\* Object.values(dateSlots).forEach over the first n entries of a day.
RECURSIVE countSlots(_, _, _)
countSlots(counters, dateSlots, n) ==
    IF n = 0 THEN counters
    ELSE countSlot(countSlots(counters, dateSlots, n - 1), dateSlots[n].tables)

\* Object.values(restaurantAvailability).forEach over the dates of `dates`,
\* the earliest first.
RECURSIVE countDates(_, _, _, _)
countDates(counters, m, h, dates) ==
    IF dates = {} THEN counters
    ELSE LET last == CHOOSE d \in dates : \A e \in dates : e <= d
             dateSlots == h[m[last]]
         IN  countSlots(countDates(counters, m, h, dates \ {last}),
                        dateSlots, Len(dateSlots))

\* A slip of availabilityRate: the division is not guarded, and 0 / 0 is NaN.
availabilityRateUnguarded(availableSlots, totalSlots) ==
    IF totalSlots = 0 THEN NaN
    ELSE IF availableSlots = 0 THEN Number(0)
    ELSE [tag |-> "number", numerator |-> availableSlots * 100,
          denominator |-> totalSlots]

\* totalSlots > 0 ? (availableSlots / totalSlots) * 100 : 0, a number kept
\* as a fraction.
availabilityRate(availableSlots, totalSlots) ==
    IF totalSlots > 0 /\ availableSlots # 0
    THEN [tag |-> "number", numerator |-> availableSlots * 100,
          denominator |-> totalSlots]
    ELSE Number(0)

getAvailabilityStats(m, h, restaurantId) ==
    IF restaurantId \notin DOMAIN m
    THEN [total_slots |-> 0, available_slots |-> 0, fully_booked_slots |-> 0,
          availability_rate |-> Number(0)]
    ELSE LET counters == countDates(NoSlots, m[restaurantId], h,
                                    DOMAIN m[restaurantId])
         IN  [total_slots |-> counters.totalSlots,
              available_slots |-> counters.availableSlots,
              fully_booked_slots |-> counters.fullyBookedSlots,
              availability_rate |->
                  availabilityRate(counters.availableSlots, counters.totalSlots)]

----------------------------------------------------------------------------
(* The caller *)

\* The first restaurant of the id list and one that has no availability.
TargetRestaurants == {AllIds[1], "r9"}

\* The first day of the horizon and the day after the horizon.
TargetDates == {world.localDay, world.localDay + MaxDays}

\* A lunch slot, a peak dinner slot and a time that is no slot.
TargetTimes ==
    {<<"1","2",":","0","0">>, <<"1","9",":","0","0">>, <<"1","5",":","0","0">>}

BookingAmounts == {Undefined} \cup {Number(k) : k \in -1..MaxTablesBooked}

MinTables == 0..MaxMinTables

UpdateAvailabilityAfterBooking ==
    /\ pc = "ready"
    /\ call = NoCall
    /\ bookings < MaxBookings
    /\ \E restaurantId \in TargetRestaurants, date \in TargetDates,
          time \in TargetTimes, tablesBooked \in BookingAmounts :
          LET result == updateAvailabilityAfterBooking(availability, heap,
                            bookings + 1, restaurantId, date, time, tablesBooked)
          IN  /\ heap' = collect(result.heap,
                            addresses(availability) \cup addresses(result.refs))
              /\ ret' = result.refs
              /\ call' = [op |-> "updateAvailabilityAfterBooking",
                          restaurantId |-> restaurantId, date |-> date,
                          time |-> time, tablesBooked |-> tablesBooked]
    /\ before' = valueOf(availability, heap)
    /\ UNCHANGED <<world, pc, availability, generated, bookings>>

\* availability = updated: the caller goes on with the returned mapping.
AdoptUpdated ==
    /\ pc = "ready"
    /\ call.op = "updateAvailabilityAfterBooking"
    /\ availability' = ret
    /\ heap' = collect(heap, addresses(ret))
    /\ bookings' = bookings + 1
    /\ call' = NoCall
    /\ ret' = Null
    /\ before' = <<>>
    /\ UNCHANGED <<world, pc, generated>>

\* The caller drops the result of the last call; a returned mapping that
\* was not adopted is collected.
DropResult ==
    /\ pc = "ready"
    /\ call # NoCall
    /\ call' = NoCall
    /\ ret' = Null
    /\ heap' = collect(heap, addresses(availability))
    /\ before' = <<>>
    /\ UNCHANGED <<world, pc, availability, generated, bookings>>

\* A query on the caller's mapping.
Query(op, args, result) ==
    /\ call = NoCall
    /\ call' = [op |-> op] @@ args
    /\ ret' = result
    /\ UNCHANGED <<world, pc, heap, availability, generated, before, bookings>>

CheckAvailability ==
    /\ pc = "ready"
    /\ \E restaurantId \in TargetRestaurants, date \in TargetDates,
          time \in TargetTimes :
          Query("checkAvailability",
                [restaurantId |-> restaurantId, date |-> date, time |-> time],
                checkAvailability(availability, heap, restaurantId, date, time))

CheckAvailabilityJs ==
    /\ pc = "ready"
    /\ \E restaurantId \in TargetRestaurants, date \in TargetDates,
          time \in TargetTimes :
          Query("checkAvailabilityJs",
                [restaurantId |-> restaurantId, date |-> date, time |-> time],
                checkAvailabilityJs(availability, heap, restaurantId, date, time))

GetAvailableSlots ==
    /\ pc = "ready"
    /\ \E restaurantId \in TargetRestaurants, date \in TargetDates,
          minTables \in MinTables :
          Query("getAvailableSlots",
                [restaurantId |-> restaurantId, date |-> date,
                 minTables |-> minTables],
                getAvailableSlots(availability, heap, restaurantId, date, minTables))

GetAvailableSlotsJs ==
    /\ pc = "ready"
    /\ \E restaurantId \in TargetRestaurants, date \in TargetDates,
          minTables \in MinTables :
          Query("getAvailableSlotsJs",
                [restaurantId |-> restaurantId, date |-> date,
                 minTables |-> minTables],
                getAvailableSlotsJs(availability, heap, restaurantId, date, minTables))

GetAvailabilityStats ==
    /\ pc = "ready"
    /\ call = NoCall
    /\ \E restaurantId \in TargetRestaurants :
          Query("getAvailabilityStats", [restaurantId |-> restaurantId],
                getAvailabilityStats(availability, heap, restaurantId))

\* A generation with a horizon of no day: every listed restaurant has an
\* entry and no date.
GenerateNoDay ==
    Generate({SubSeq(AllIds, 1, MaxRestaurants)}, {0}, BookingStreams)

\* A slot, a time between two slots and a time between lunch and dinner.
PreferredTimes ==
    {<<"1","9",":","0","0">>, <<"1","8",":","1","5">>, <<"1","5",":","3","0">>}

\* An omitted argument or a number of tables.
MinTablesArgs == {Undefined} \cup {Number(k) : k \in 0..MaxMinTables}

MaxAlternativesArgs == {Undefined} \cup {Number(k) : k \in -1..MaxAlternatives}

FindAlternativeSlots ==
    /\ pc = "ready"
    /\ call = NoCall
    /\ \E restaurantId \in TargetRestaurants, date \in TargetDates,
          preferredTime \in PreferredTimes, minTables \in MinTablesArgs,
          maxAlternatives \in MaxAlternativesArgs :
          Query("findAlternativeSlots",
                [restaurantId |-> restaurantId, date |-> date,
                 preferredTime |-> preferredTime, minTables |-> minTables,
                 maxAlternatives |-> maxAlternatives],
                findAlternativeSlots(availability, heap, restaurantId, date,
                                     preferredTime, minTables, maxAlternatives))

\* Lists of ids, with repetitions, of generated and unknown restaurants.
RECURSIVE ListsOver(_, _)
ListsOver(S, n) ==
    IF n = 0 THEN {<<>>}
    ELSE ListsOver(S, n - 1)
            \cup {Append(l, x) : l \in ListsOver(S, n - 1), x \in S}

CheckedIdLists == ListsOver({AllIds[1], AllIds[MaxRestaurants], "r9"}, MaxIdList)

CheckMultipleRestaurants ==
    /\ pc = "ready"
    /\ call = NoCall
    /\ \E restaurantIds \in CheckedIdLists, date \in TargetDates,
          time \in TargetTimes, minTables \in MinTablesArgs :
          Query("checkMultipleRestaurants",
                [restaurantIds |-> restaurantIds, date |-> date, time |-> time,
                 minTables |-> minTables],
                checkMultipleRestaurants(availability, heap, restaurantIds,
                                         date, time, minTables))

\* Yesterday, today and tomorrow on the host's calendar.
BookingDates == {world.localDay - 1, world.localDay, world.localDay + 1}

\* Two well-formed times, a single-digit hour, a missing colon, a letter
\* and a trailing line feed.
BookingTimes ==
    {<<"0","7",":","0","0">>, <<"1","9",":","3","0">>, <<"7",":","0","0">>,
     <<"1","9","3","0">>, <<"0","7",":","0","a">>,
     <<"0","7",":","0","0","\n">>}

PartySizes == (MinPartySize - MaxPartyMargin)..(MaxPartySize + MaxPartyMargin)

ValidateBooking ==
    /\ pc = "start"
    /\ call = NoCall
    /\ \E date \in BookingDates, time \in BookingTimes, partySize \in PartySizes :
          Query("validateBooking",
                [date |-> date, time |-> time, partySize |-> partySize],
                validateBooking(world, date, time, partySize))

\* Texts of the restaurant records and of the filters.
Italian == <<"I","t","a","l","i","a","n">>
ItalianLower == <<"i","t","a","l","i","a","n">>
Thai == <<"T","h","a","i">>
ThaiLower == <<"t","h","a","i">>
Downtown == <<"D","o","w","n","t","o","w","n">>
DowntownLower == <<"d","o","w","n","t","o","w","n">>
Midtown == <<"M","i","d","t","o","w","n">>
Vegan == <<"V","e","g","a","n">>
VeganLower == <<"v","e","g","a","n">>
Halal == <<"h","a","l","a","l">>
Moderate == <<"$","$">>

\* Two Italian restaurants rated 4.2 and 4.7, a Thai one rated 4.5 and an
\* unrated Thai one.
RestaurantPool ==
    {[id |-> "r1", cuisine |-> Italian, location |-> Downtown,
      price_range |-> <<"$","$","$">>, rating |-> 42,
      dietary_options |-> <<VeganLower, Halal>>,
      outdoor_seating |-> TRUE, private_dining |-> TRUE],
     [id |-> "r2", cuisine |-> ItalianLower, location |-> Midtown,
      price_range |-> Moderate, rating |-> 47,
      dietary_options |-> <<Vegan>>,
      outdoor_seating |-> FALSE, private_dining |-> FALSE],
     [id |-> "r3", cuisine |-> Thai, location |-> Downtown,
      price_range |-> Moderate, rating |-> 45,
      dietary_options |-> <<>>,
      outdoor_seating |-> FALSE, private_dining |-> TRUE],
     [id |-> "r4", cuisine |-> Thai, location |-> Midtown,
      price_range |-> <<"$">>, rating |-> 0,
      dietary_options |-> <<Halal>>,
      outdoor_seating |-> TRUE, private_dining |-> FALSE]}

\* Lists of up to n different elements of S.
RECURSIVE DistinctLists(_, _)
DistinctLists(S, n) ==
    IF n = 0 THEN {<<>>}
    ELSE DistinctLists(S, n - 1)
            \cup UNION {{Append(l, x) : x \in S \ Range(l)} :
                            l \in DistinctLists(S, n - 1)}

RestaurantLists == DistinctLists(RestaurantPool, MaxDirectory)

\* A field that is missing, or given with one of the values.
Optional(field, values) ==
    {<<>>} \cup {[f \in {field} |-> v] : v \in values}

DietaryRequests == {<<>>, <<VeganLower>>, <<Vegan, Halal>>}

MinRatings == {45, 47}

SearchFilters ==
    {cuisine @@ location @@ price @@ dietary @@ rating @@ outdoor @@ private :
        cuisine \in Optional("cuisine", {Italian, ThaiLower}),
        location \in Optional("location", {DowntownLower}),
        price \in Optional("price_range", {Moderate}),
        dietary \in Optional("dietary_options", DietaryRequests),
        rating \in Optional("min_rating", MinRatings),
        outdoor \in Optional("outdoor_seating", {TRUE, FALSE}),
        private \in Optional("private_dining", {FALSE})}

Preferences ==
    {cuisine @@ dietary @@ price @@ rating :
        cuisine \in Optional("cuisine", {Italian, ThaiLower}),
        dietary \in Optional("dietary_options", DietaryRequests),
        price \in Optional("price_range", {Moderate}),
        rating \in Optional("min_rating", MinRatings)}

Limits == {Undefined} \cup {Number(k) : k \in 0..MaxLimit}

SearchRestaurants ==
    /\ pc = "start"
    /\ call = NoCall
    /\ \E restaurants \in RestaurantLists, filters \in SearchFilters :
          Query("searchRestaurants",
                [restaurants |-> restaurants, filters |-> filters],
                searchRestaurants(restaurants, filters))

GetRecommendations ==
    /\ pc = "start"
    /\ call = NoCall
    /\ \E restaurants \in RestaurantLists, preferences \in Preferences,
          limit \in Limits :
          Query("getRecommendations",
                [restaurants |-> restaurants, preferences |-> preferences,
                 limit |-> limit],
                getRecommendations(restaurants, preferences, limit))

\* The query runs start from the mapping of the longest id list and horizon,
\* with any first draw.
GenerateAvailabilityForQueries ==
    Generate({SubSeq(AllIds, 1, MaxRestaurants)}, {MaxDays}, GenerationStreams)

----------------------------------------------------------------------------
(* Specifications *)

NextGeneration == GenerateAvailabilityAnyDraw

SpecGeneration == InitGeneration /\ [][NextGeneration]_vars

NextValidation == ValidateBooking

SpecValidation == InitGeneration /\ [][NextValidation]_vars

NextDirectory ==
    \/ SearchRestaurants
    \/ GetRecommendations

\* The restaurant records do not depend on the host: one host.
InitDirectory ==
    InitWith(Hosts({3}, {[localHour |-> 12, utcOffset |-> 0]}, {0}))

SpecDirectory == InitDirectory /\ [][NextDirectory]_vars

NextQueries ==
    \/ GenerateAvailabilityForQueries
    \/ FindAlternativeSlots
    \/ CheckMultipleRestaurants
    \/ DropResult

SpecQueries == Init /\ [][NextQueries]_vars

Next ==
    \/ GenerateAvailability
    \/ UpdateAvailabilityAfterBooking
    \/ AdoptUpdated
    \/ DropResult
    \/ CheckAvailability
    \/ CheckAvailabilityJs
    \/ GetAvailableSlots
    \/ GetAvailableSlotsJs
    \/ GetAvailabilityStats
    \/ GenerateNoDay

Spec == Init /\ [][Next]_vars

----------------------------------------------------------------------------
(* Vocabulary of the properties *)

IsUpdate == call.op = "updateAvailabilityAfterBooking"

\* The value of the mapping the last update returned.
Returned == valueOf(ret, heap)

\* The value of the mapping the caller holds.
Current == valueOf(availability, heap)

\* The tables-to-decrement amount of the last update; 1 when omitted.
Amount == IF call.tablesBooked = Undefined THEN 1 ELSE call.tablesBooked.value

\* The counts a mapping value stores for a slot: one count or none.
StoredCounts(v, r, d, t) ==
    IF r \in DOMAIN v /\ d \in DOMAIN v[r]
    THEN {v[r][d][i].tables : i \in {j \in 1..Len(v[r][d]) : v[r][d][j].time = t}}
    ELSE {}

\* The count a mapping value stores for a slot, or Undefined.
CountAt(v, r, d, t) ==
    IF StoredCounts(v, r, d, t) = {}
    THEN Undefined
    ELSE Number(CHOOSE c \in StoredCounts(v, r, d, t) : TRUE)

\* The time keys of a day object, in the order the object holds them.
TimeKeys(obj) == [i \in 1..Len(obj) |-> obj[i].time]

\* Restaurant, date and time keys of two mapping values are the same.
SameKeys(v1, v2) ==
    /\ DOMAIN v1 = DOMAIN v2
    /\ \A r \in DOMAIN v1 :
          /\ DOMAIN v1[r] = DOMAIN v2[r]
          /\ \A d \in DOMAIN v1[r] : TimeKeys(v1[r][d]) = TimeKeys(v2[r][d])

\* Every count of a mapping value is a non-negative integer.
CountsNonNegative(v) ==
    \A r \in DOMAIN v : \A d \in DOMAIN v[r] : \A i \in 1..Len(v[r][d]) :
        v[r][d][i].tables \in Nat

\* No count of v1 is greater than the count v2 has for the same slot.
NoCountAbove(v1, v2) ==
    \A r \in DOMAIN v1 : \A d \in DOMAIN v1[r] : \A i \in 1..Len(v1[r][d]) :
        LET old == CountAt(v2, r, d, v1[r][d][i].time)
        IN  old # Undefined => v1[r][d][i].tables <= old.value

IsTarget(r, d, t) ==
    r = call.restaurantId /\ d = call.date /\ t = call.time

\* The count of the target slot of the last update, in a mapping value.
TargetCount(v) == CountAt(v, call.restaurantId, call.date, call.time)

Floor0(n) == IF n < 0 THEN 0 ELSE n

\* Minutes after midnight of an HH:MM time.
ClockMinutes(t) ==
    (10 * DigitValue(t[1]) + DigitValue(t[2])) * 60
        + 10 * DigitValue(t[4]) + DigitValue(t[5])

\* 11:30-14:00, 17:00-19:30 and 20:00-22:00 in half-hour steps.
CanonicalMinutes ==
    {690 + 30 * k : k \in 0..5} \cup {1020 + 30 * k : k \in 0..5}
        \cup {1200 + 30 * k : k \in 0..4}

IsCanonicalSlot(t) ==
    /\ Len(t) = 5
    /\ t[3] = ":"
    /\ \A i \in {1, 2, 4, 5} : t[i] \in Digits
    /\ ClockMinutes(t) \in CanonicalMinutes

----------------------------------------------------------------------------
(* Properties *)

\* C1: an update on an existing slot with count C and amount K (1 when
\* omitted) returns a mapping whose count for that slot is max(0, C - K),
\* never a negative count.
C1_DecrementFlooredAtZero ==
    (IsUpdate /\ TargetCount(before) # Undefined) =>
        /\ TargetCount(Returned)
              = Number(Floor0(TargetCount(before).value - Amount))
        /\ TargetCount(Returned).value >= 0

C1_Witness ==
    /\ IsUpdate
    /\ TargetCount(before) # Undefined
    /\ TargetCount(before).value > 0
    /\ Amount > TargetCount(before).value
    /\ TargetCount(Returned) = Number(0)

\* C2: in the mapping an update returns, every entry other than the target
\* slot has the count it had in the input, and the restaurant, date and time
\* keys are those of the input.
C2_OtherEntriesUnchanged ==
    IsUpdate =>
        /\ SameKeys(Returned, before)
        /\ \A r \in DOMAIN before : \A d \in DOMAIN before[r] :
              \A i \in 1..Len(before[r][d]) :
                  IsTarget(r, d, before[r][d][i].time)
                      \/ CountAt(Returned, r, d, before[r][d][i].time)
                            = Number(before[r][d][i].tables)

C2_Witness ==
    /\ IsUpdate
    /\ TargetCount(before) # TargetCount(Returned)
    /\ Cardinality(DOMAIN before) > 1
    /\ \A r \in DOMAIN before : Cardinality(DOMAIN before[r]) > 1

\* C3: an update leaves the caller's original mapping with the counts it
\* held before the call, the target included: a point check on the original
\* returns the count of before the booking, a point check on the returned
\* mapping the decremented one.
C3_CopyOnWrite ==
    IsUpdate =>
        /\ Current = before
        /\ TargetCount(before) # Undefined =>
              /\ checkAvailability(availability, heap,
                        call.restaurantId, call.date, call.time)
                    = TargetCount(before)
              /\ checkAvailability(ret, heap,
                        call.restaurantId, call.date, call.time)
                    = Number(Floor0(TargetCount(before).value - Amount))

C3_Witness ==
    /\ IsUpdate
    /\ Returned # before
    /\ Current = before
    /\ checkAvailability(availability, heap,
              call.restaurantId, call.date, call.time)
          # checkAvailability(ret, heap, call.restaurantId, call.date, call.time)

\* C4: an update whose restaurant, date or time key is absent returns a
\* mapping equal to its input: no key created, no count changed.
C4_MissingTargetNoOp ==
    (IsUpdate /\ TargetCount(before) = Undefined) => Returned = before

\* The restaurant and the date exist and the time, a lunch slot skipped at
\* generation, does not.
C4_Witness ==
    /\ IsUpdate
    /\ call.restaurantId \in DOMAIN before
    /\ call.date \in DOMAIN before[call.restaurantId]
    /\ call.time = <<"1","2",":","0","0">>
    /\ TargetCount(before) = Undefined
    /\ Returned = before

\* C5: from generation on and through every sequence of updates, the
\* mapping has the restaurant, date and time keys it was generated with and
\* every count is a non-negative integer.
C5_KeysFixedCountsNonNegative ==
    pc = "ready" =>
        /\ SameKeys(Current, generated)
        /\ CountsNonNegative(Current)
        /\ IsUpdate =>
              /\ SameKeys(Returned, generated)
              /\ CountsNonNegative(Returned)

C5_Witness ==
    /\ pc = "ready"
    /\ bookings = MaxBookings
    /\ Current # generated
    /\ \E r \in DOMAIN Current : \E d \in DOMAIN Current[r] :
          Len(Current[r][d]) < Len(timeSlots)

\* C6 as stated: whatever amount the caller passes, no count of the
\* returned mapping is greater than the count of the mapping the update was
\* applied to.
C6_NeverIncreasesAnyAmount ==
    IsUpdate => NoCountAbove(Returned, before)

\* C6 as amended: for an amount that is not negative, no count of the
\* returned mapping is greater than the count of the mapping the update was
\* applied to.
C6_NeverIncreasesNonNegativeAmount ==
    (IsUpdate /\ Amount >= 0) => NoCountAbove(Returned, before)

C6_Witness ==
    /\ IsUpdate
    /\ Amount > 0
    /\ bookings > 0
    /\ TargetCount(before) # Undefined
    /\ TargetCount(Returned).value < TargetCount(before).value

\* C7: whatever the draws, the weekday and the slot, generateAvailability
\* stores a non-negative integer count, and every time key it stores is one
\* of the 17 canonical slots.
C7_GeneratedCountsAndKeys ==
    pc = "ready" =>
        /\ CountsNonNegative(generated)
        /\ \A r \in DOMAIN generated : \A d \in DOMAIN generated[r] :
              \A i \in 1..Len(generated[r][d]) :
                  IsCanonicalSlot(generated[r][d][i].time)

\* A day that lost a lunch slot, and an off-peak dinner slot that the
\* weekend adjustment brought to 0.
C7_Witness ==
    /\ pc = "ready"
    /\ \E r \in DOMAIN generated : \E d \in DOMAIN generated[r] :
          Len(generated[r][d]) < Len(timeSlots)
    /\ \E r \in DOMAIN generated : \E d \in DOMAIN generated[r] :
          \E i \in 1..Len(generated[r][d]) :
              /\ generated[r][d][i].tables = 0
              /\ generated[r][d][i].time = <<"1","7",":","0","0">>

\* The ISO date of the instant generateAvailability is called at.
TodayISO == toISODate(world, newDate(world))

\* C8: for an id list and a horizon N, the mapping has one top-level key per
\* listed id and under each exactly the N date keys today, today + 1, ...,
\* today + N - 1, none duplicated, none skipped.
C8_DateKeysConsecutive ==
    (pc = "ready" /\ call.op = "generateAvailability") =>
        /\ DOMAIN generated = Range(call.restaurantIds)
        /\ \A r \in DOMAIN generated :
              /\ DOMAIN generated[r]
                    = {TodayISO + k : k \in 0..(call.daysAhead - 1)}
              /\ Cardinality(DOMAIN generated[r]) = call.daysAhead

\* C9: checkAvailability returns the stored count whenever the restaurant,
\* date and time keys all exist, 0 for a slot stored with count 0, and null
\* whenever one of the three keys is missing.
C9_CheckAvailability ==
    call.op \in {"checkAvailability", "checkAvailabilityJs"} =>
        LET stored == StoredCounts(Current, call.restaurantId, call.date,
                                   call.time)
        IN  /\ \A c \in stored : ret = Number(c)
            /\ stored = {} => ret = Null

\* A point check of a slot stored with count 0.
C9_Witness ==
    /\ call.op = "checkAvailability"
    /\ StoredCounts(Current, call.restaurantId, call.date, call.time) = {0}
    /\ ret = Number(0)
    /\ ret # Null

\* The slots of a day whose count is at least minTables, each with its count.
Qualifying(day, minTables) ==
    {<<day[i].time, day[i].tables>> :
        i \in {j \in 1..Len(day) : day[j].tables >= minTables}}

\* C10: getAvailableSlots returns exactly the slots of the date whose count
\* is at least minTables, each with its stored count, in ascending HH:MM
\* order, and the empty sequence for an absent restaurant or date.
C10_GetAvailableSlots ==
    call.op \in {"getAvailableSlots", "getAvailableSlotsJs"} =>
        IF call.restaurantId \in DOMAIN Current
              /\ call.date \in DOMAIN Current[call.restaurantId]
        THEN LET day == Current[call.restaurantId][call.date]
             IN  /\ {<<ret[i].time, ret[i].available_tables>> : i \in 1..Len(ret)}
                       = Qualifying(day, call.minTables)
                 /\ Len(ret) = Cardinality(Qualifying(day, call.minTables))
                 /\ \A i \in 1..(Len(ret) - 1) :
                       ClockMinutes(ret[i].time) < ClockMinutes(ret[i + 1].time)
        ELSE ret = <<>>

\* Some slots of the day qualify and some do not.
C10_Witness ==
    /\ call.op = "getAvailableSlots"
    /\ call.minTables > 0
    /\ Len(ret) > 1
    /\ call.restaurantId \in DOMAIN Current
    /\ call.date \in DOMAIN Current[call.restaurantId]
    /\ Len(ret) < Len(Current[call.restaurantId][call.date])

----------------------------------------------------------------------------
(* Properties of the alternative-slot search *)

IsAlternatives == call.op = "findAlternativeSlots"

\* The arguments of the last alternative-slot search, defaults applied.
AlternativesMinTables ==
    IF call.minTables = Undefined THEN 1 ELSE call.minTables.value

AlternativesMax ==
    IF call.maxAlternatives = Undefined THEN 3 ELSE call.maxAlternatives.value

\* The times of the date's slots that have at least minTables tables and
\* are not the preferred time.
AlternativeTimes ==
    IF call.restaurantId \in DOMAIN Current
          /\ call.date \in DOMAIN Current[call.restaurantId]
    THEN LET day == Current[call.restaurantId][call.date]
         IN  {day[i].time :
                i \in {j \in 1..Len(day) :
                          /\ day[j].tables >= AlternativesMinTables
                          /\ day[j].time # call.preferredTime}}
    ELSE {}

\* Distance in minutes between a time and the preferred time.
Distance(t) == Abs(ClockMinutes(t) - ClockMinutes(call.preferredTime))

\* t1 comes before t2: it is nearer to the preferred time, or as near and
\* earlier.
Nearer(t1, t2) ==
    \/ Distance(t1) < Distance(t2)
    \/ Distance(t1) = Distance(t2) /\ ClockMinutes(t1) < ClockMinutes(t2)

\* C11: whatever the mapping, the preferred time, minTables and
\* maxAlternatives, the result of findAlternativeSlots has no slot at the
\* preferred time and at most maxAlternatives entries.
C11_ExcludesPreferredAtMostMax ==
    IsAlternatives =>
        /\ \A i \in 1..Len(ret) : ret[i].time # call.preferredTime
        /\ Len(ret) <= AlternativesMax

\* C15: the result of findAlternativeSlots is in ascending distance from the
\* preferred time, of two slots at the same distance the earlier comes
\* first, and the result is the maxAlternatives nearest qualifying slots in
\* that order.
C15_NearestFirstEarlierOnTies ==
    IsAlternatives =>
        /\ \A i \in 1..(Len(ret) - 1) : Nearer(ret[i].time, ret[i + 1].time)
        /\ \A i \in 1..Len(ret) :
              /\ ret[i].time \in AlternativeTimes
              /\ \A t \in AlternativeTimes :
                    t \in {ret[j].time : j \in 1..Len(ret)}
                        \/ Nearer(ret[i].time, t)
        /\ Len(ret) = IF AlternativesMax < 0 THEN 0
                      ELSE IF AlternativesMax > Cardinality(AlternativeTimes)
                           THEN Cardinality(AlternativeTimes)
                           ELSE AlternativesMax

\* The same with a maximum that is not negative: the order and the choice
\* of the nearest slots.
AlternativesNearestWithinMax ==
    (IsAlternatives /\ AlternativesMax >= 0) => C15_NearestFirstEarlierOnTies

----------------------------------------------------------------------------
(* Properties of the multi-restaurant check *)

IsMultiCheck == call.op = "checkMultipleRestaurants"

\* C12: checkMultipleRestaurants returns one result per id of the list, in
\* the order of the list; a restaurant without an entry for the date and
\* time is reported with tables 0, one with a stored count with that count,
\* and available is true exactly when the reported count is at least
\* minTables (1 when omitted).
C12_CheckMultipleRestaurants ==
    IsMultiCheck =>
        LET minTables ==
                IF call.minTables = Undefined THEN 1 ELSE call.minTables.value
        IN  /\ Len(ret) = Len(call.restaurantIds)
            /\ \A i \in 1..Len(ret) :
                  LET stored == StoredCounts(Current, call.restaurantIds[i],
                                             call.date, call.time)
                  IN  /\ ret[i].restaurantId = call.restaurantIds[i]
                      /\ stored = {} => ret[i].tables = 0
                      /\ \A c \in stored : ret[i].tables = c
                      /\ ret[i].available <=> ret[i].tables >= minTables

\* With minTables omitted: a first restaurant without the entry, reported
\* unavailable with 0 tables, and a second one with 3 tables, available.
C12_Witness ==
    /\ IsMultiCheck
    /\ call.minTables = Undefined
    /\ Len(ret) = 2
    /\ StoredCounts(Current, call.restaurantIds[1], call.date, call.time) = {}
    /\ ret[1] = [restaurantId |-> call.restaurantIds[1],
                 available |-> FALSE, tables |-> 0]
    /\ StoredCounts(Current, call.restaurantIds[2], call.date, call.time) = {3}
    /\ ret[2] = [restaurantId |-> call.restaurantIds[2],
                 available |-> TRUE, tables |-> 3]

----------------------------------------------------------------------------
(* Properties of the validation *)

IsValidation == call.op = "validateBooking"

\* Two digits, a colon, two digits.
WellFormedTime(t) ==
    /\ Len(t) = 5
    /\ t[3] = ":"
    /\ \A i \in {1, 2, 4, 5} : t[i] \in Digits

\* The messages of the rules the arguments of the last validation violate;
\* today is the day of the host's calendar.
ViolatedRules ==
    (IF call.date < world.localDay THEN {PastDateError} ELSE {})
        \cup (IF call.partySize < 1 THEN {PartyTooSmallError} ELSE {})
        \cup (IF call.partySize > 20 THEN {PartyTooLargeError} ELSE {})
        \cup (IF WellFormedTime(call.time) THEN {} ELSE {TimeFormatError})

\* C13: validateBooking returns (it does not throw) an error list with
\* exactly one message for each violated rule (date before today, party
\* size < 1, party size > 20, time not two digits-colon-two digits), every
\* rule evaluated; valid is true iff the list is empty.
C13_ValidateBooking ==
    IsValidation =>
        /\ DOMAIN ret = {"valid", "errors"}
        /\ Range(ret.errors) = ViolatedRules
        /\ Len(ret.errors) = Cardinality(ViolatedRules)
        /\ ret.valid <=> ret.errors = <<>>
        /\ (/\ call.date >= world.localDay
            /\ call.partySize \in 1..20
            /\ call.time = <<"0","7",":","0","0">>) => ret.valid
        /\ (\/ call.partySize = 0
            \/ call.partySize = 21
            \/ call.time = <<"7",":","0","0">>
            \/ call.date = world.localDay - 1) => ~ret.valid

\* Yesterday's date with a party of 21 and the time 7:00: three messages.
C13_Witness ==
    /\ IsValidation
    /\ call.date = world.localDay - 1
    /\ call.partySize = 21
    /\ call.time = <<"7",":","0","0">>
    /\ ret = [valid |-> FALSE,
              errors |-> <<PastDateError, PartyTooLargeError, TimeFormatError>>]

----------------------------------------------------------------------------
(* Properties of the search and of the recommendations *)

IsSearch == call.op = "searchRestaurants"

IsRecommend == call.op = "getRecommendations"

\* Two texts are the same up to the case of their letters.
FoldCase(c) ==
    IF \E k \in 1..Len(LowerCase) : LowerCase[k] = c
    THEN UpperCase[CHOOSE k \in 1..Len(LowerCase) : LowerCase[k] = c]
    ELSE c

SameIgnoringCase(a, b) ==
    Len(a) = Len(b) /\ \A i \in 1..Len(a) : FoldCase(a[i]) = FoldCase(b[i])

\* The restaurant has the dietary option, whatever the case.
Offers(r, option) ==
    \E i \in 1..Len(r.dietary_options) :
        SameIgnoringCase(r.dietary_options[i], option)

\* The restaurant satisfies every filter field that is present.
Satisfies(r, f) ==
    /\ "cuisine" \in DOMAIN f => SameIgnoringCase(r.cuisine, f.cuisine)
    /\ "location" \in DOMAIN f => SameIgnoringCase(r.location, f.location)
    /\ "price_range" \in DOMAIN f => r.price_range = f.price_range
    /\ "dietary_options" \in DOMAIN f =>
          \A i \in 1..Len(f.dietary_options) : Offers(r, f.dietary_options[i])
    /\ "min_rating" \in DOMAIN f => r.rating >= f.min_rating
    /\ "outdoor_seating" \in DOMAIN f => r.outdoor_seating = f.outdoor_seating
    /\ "private_dining" \in DOMAIN f => r.private_dining = f.private_dining

\* The places, in the list of the last search, of the restaurants that
\* satisfy its filters.
Matching ==
    {i \in 1..Len(call.restaurants) : Satisfies(call.restaurants[i], call.filters)}

\* The k-th smallest element of a set of numbers.
Kth(S, k) == CHOOSE i \in S : Cardinality({j \in S : j <= i}) = k

\* C16: searchRestaurants returns, in the order of the list, exactly the
\* restaurants that satisfy every filter field that is present: cuisine and
\* location up to case, the exact price range symbol, every requested
\* dietary option up to case, rating >= min_rating, and outdoor_seating /
\* private_dining equal to the given boolean, false included; a missing
\* field filters nothing.
C16_SearchRestaurants ==
    IsSearch =>
        /\ Len(ret) = Cardinality(Matching)
        /\ \A k \in 1..Len(ret) : ret[k] = call.restaurants[Kth(Matching, k)]

\* A search for outdoor_seating false, private_dining not given, that keeps
\* some restaurants of the list and not others.
C16_Witness ==
    /\ IsSearch
    /\ "outdoor_seating" \in DOMAIN call.filters
    /\ call.filters.outdoor_seating = FALSE
    /\ "private_dining" \notin DOMAIN call.filters
    /\ Len(ret) > 0
    /\ Len(ret) < Len(call.restaurants)
    /\ \E k \in 1..Len(ret) : ret[k].private_dining

\* The score of the claim, in tenths: 10 for the cuisine, 5 per requested
\* dietary option the restaurant has, 5 for the price range, twice the rating.
PreferenceScore(r) ==
    LET p == call.preferences
    IN  (IF "cuisine" \in DOMAIN p /\ SameIgnoringCase(r.cuisine, p.cuisine)
         THEN 100 ELSE 0)
        + (IF "dietary_options" \in DOMAIN p
           THEN 50 * Cardinality({i \in 1..Len(p.dietary_options) :
                                    Offers(r, p.dietary_options[i])})
           ELSE 0)
        + (IF "price_range" \in DOMAIN p /\ r.price_range = p.price_range
           THEN 50 ELSE 0)
        + 2 * r.rating

\* The restaurants of the list with a positive score and a rating that is
\* not below the minimum rating, when one is given.
Recommendable ==
    {r \in Range(call.restaurants) :
        /\ PreferenceScore(r) > 0
        /\ "min_rating" \in DOMAIN call.preferences =>
              r.rating >= call.preferences.min_rating}

RecommendLimit == IF call.limit = Undefined THEN 5 ELSE call.limit.value

\* C14: getRecommendations returns only restaurants with a positive score
\* whose rating is not below the given min_rating, in descending order of
\* the score, cut to the limit (5 when omitted): the best ones.
C14_GetRecommendations ==
    IsRecommend =>
        /\ Range(ret) \subseteq Recommendable
        /\ \A i \in 1..(Len(ret) - 1) :
              PreferenceScore(ret[i]) >= PreferenceScore(ret[i + 1])
        /\ Len(ret) = Cardinality(Range(ret))
        /\ Len(ret) = IF RecommendLimit < Cardinality(Recommendable)
                      THEN RecommendLimit ELSE Cardinality(Recommendable)
        /\ \A r \in Recommendable \ Range(ret) : \A i \in 1..Len(ret) :
              PreferenceScore(ret[i]) >= PreferenceScore(r)

\* Preference {cuisine Italian, min_rating 4.5} over the Italian restaurants
\* rated 4.2 and 4.7: only the one rated 4.7 is returned.
C14_Witness ==
    /\ IsRecommend
    /\ DOMAIN call.preferences = {"cuisine", "min_rating"}
    /\ call.preferences.cuisine = Italian
    /\ call.preferences.min_rating = 45
    /\ {r.rating : r \in Range(call.restaurants)} = {42, 47}
    /\ \A r \in Range(call.restaurants) : SameIgnoringCase(r.cuisine, Italian)
    /\ call.limit = Undefined
    /\ Len(ret) = 1
    /\ ret[1].rating = 47

----------------------------------------------------------------------------
(* Properties of the weekday heuristics *)

IsGeneration == pc = "ready" /\ call.op = "generateAvailability"

\* The weekday of a calendar date: 0 = Sunday ... 6 = Saturday.
CalendarWeekday(d) == (d + 4) % 7

\* The date key under which the day at an offset of the horizon is stored
\* and the weekday its heuristics were applied with.
DateKeyAt(dayOffset) == toISODate(world, horizonDate(world, dayOffset))

WeekdayUsedAt(dayOffset) == getDay(horizonDate(world, dayOffset))

\* C17: for every day of the horizon, the weekday used for the weekend
\* lunch skip, the weekend dinner and the weekday lunch heuristics is the
\* calendar weekday of the date key the day is stored under, whatever the
\* local time of day and the UTC offset of the host.
C17_WeekdayOfDateKey ==
    IsGeneration =>
        \A dayOffset \in 0..(call.daysAhead - 1) :
            WeekdayUsedAt(dayOffset) = CalendarWeekday(DateKeyAt(dayOffset))

PeakTimes ==
    {<<"1","9",":","0","0">>, <<"1","9",":","3","0">>,
     <<"2","0",":","0","0">>, <<"2","0",":","3","0">>}

\* C18: in every generated mapping, whatever the draws, every peak slot
\* (19:00, 19:30, 20:00, 20:30) of a day whose weekday is Friday or Saturday
\* has count 0.
C18_WeekendPeakSlotsZero ==
    IsGeneration =>
        \A r \in DOMAIN generated : \A d \in DOMAIN generated[r] :
            CalendarWeekday(d) \in {5, 6} =>
                \A i \in 1..Len(generated[r][d]) :
                    generated[r][d][i].time \in PeakTimes
                        => generated[r][d][i].tables = 0

----------------------------------------------------------------------------
(* Properties of the order of bookings *)

\* A booking: its target and its amount.
Booking(restaurantId, date, time, tablesBooked) ==
    [restaurantId |-> restaurantId, date |-> date, time |-> time,
     tablesBooked |-> tablesBooked]

\* The bookings with an amount that is not negative, omitted amount included.
NonNegativeBookings ==
    {Booking(r, d, t, k) :
        r \in TargetRestaurants, d \in TargetDates, t \in TargetTimes,
        k \in {Undefined} \cup {Number(n) : n \in 0..MaxTablesBooked}}

AmountOf(b) == IF b.tablesBooked = Undefined THEN 1 ELSE b.tablesBooked.value

\* The booking of the last update.
LastBooking == Booking(call.restaurantId, call.date, call.time, call.tablesBooked)

\* updateAvailabilityAfterBooking applied to a mapping for a booking; the
\* objects of the result are numbered by `epoch`.
Applied(m, h, epoch, b) ==
    updateAvailabilityAfterBooking(m, h, epoch, b.restaurantId, b.date,
                                   b.time, b.tablesBooked)

ValueOfResult(result) == valueOf(result.refs, result.heap)

\* The value of the mapping after the booking b and then the last booking,
\* from the mapping the last update was applied to.
OtherThenLast(b) ==
    LET first == Applied(availability, heap, MaxBookings + 1, b)
    IN  ValueOfResult(Applied(first.refs, first.heap, MaxBookings + 2, LastBooking))

\* The value of the mapping after the last booking and then the booking b.
LastThenOther(b) == ValueOfResult(Applied(ret, heap, MaxBookings + 1, b))

\* The value of the mapping after one booking of the two amounts together.
BothAtOnce(b) ==
    ValueOfResult(Applied(availability, heap, MaxBookings + 1,
        Booking(call.restaurantId, call.date, call.time,
                Number(Amount + AmountOf(b)))))

SameTarget(b) == IsTarget(b.restaurantId, b.date, b.time)

\* C19: for any mapping and any two bookings with amounts K1, K2 >= 0, on
\* the same target or on different ones, applying the first and then the
\* second yields the same mapping as applying the second and then the
\* first, and for the same target the same mapping as one booking of
\* K1 + K2.
C19_BookingOrderIndependent ==
    (IsUpdate /\ Amount >= 0) =>
        \A b \in NonNegativeBookings :
            /\ OtherThenLast(b) = LastThenOther(b)
            /\ SameTarget(b) => LastThenOther(b) = BothAtOnce(b)

\* Two bookings on the same slot, each smaller than the count and together
\* larger: the floor at 0 acts on the second one, whichever it is.
C19_Witness ==
    /\ IsUpdate
    /\ Amount > 0
    /\ TargetCount(before) # Undefined
    /\ TargetCount(Returned).value > 0
    /\ \E b \in NonNegativeBookings :
          /\ SameTarget(b)
          /\ AmountOf(b) # Amount
          /\ AmountOf(b) < TargetCount(before).value
          /\ AmountOf(b) > TargetCount(Returned).value
          /\ TargetCount(LastThenOther(b)) = Number(0)
          /\ OtherThenLast(b) = LastThenOther(b)

----------------------------------------------------------------------------
(* Properties of the statistics *)

IsStats == call.op = "getAvailabilityStats"

\* The slots of a restaurant in a mapping value whose count is in `counts`.
SlotsWith(v, r, counts) ==
    IF r \in DOMAIN v
    THEN UNION {{<<d, i>> : i \in {j \in 1..Len(v[r][d]) :
                                    v[r][d][j].tables \in counts}} :
                    d \in DOMAIN v[r]}
    ELSE {}

Positive == Nat \ {0}

\* C20: for any restaurant and through every sequence of bookings with
\* amounts >= 0, getAvailabilityStats has available_slots +
\* fully_booked_slots = total_slots, total_slots is what it was at
\* generation, a booking never raises available_slots, and
\* availability_rate is 0 when total_slots is 0 or the restaurant is absent.
C20_AvailabilityStats ==
    /\ IsStats =>
          /\ ret.available_slots + ret.fully_booked_slots = ret.total_slots
          /\ ret.total_slots
                = Cardinality(SlotsWith(generated, call.restaurantId, Int))
          /\ ret.available_slots
                = Cardinality(SlotsWith(Current, call.restaurantId, Positive))
          /\ (ret.total_slots = 0 \/ call.restaurantId \notin DOMAIN Current)
                => ret.availability_rate = Number(0)
    /\ (IsUpdate /\ Amount >= 0) =>
          \A r \in TargetRestaurants :
              LET old == getAvailabilityStats(availability, heap, r)
                  new == getAvailabilityStats(ret, heap, r)
              IN  /\ new.total_slots = old.total_slots
                  /\ new.available_slots <= old.available_slots
                  /\ new.available_slots + new.fully_booked_slots
                        = new.total_slots

\* The statistics of a restaurant after the bookings, with fewer available
\* slots than at generation.
C20_Witness ==
    /\ IsStats
    /\ bookings = MaxBookings
    /\ ret.total_slots > 0
    /\ ret.fully_booked_slots > 0
    /\ ret.available_slots
          < Cardinality(SlotsWith(generated, call.restaurantId, Positive))

====
